---- MODULE Spec2Model ----
(***************************************************************************)
(* Point-in-time backtesting and nested-model evaluation engine of the     *)
(* PETR4 informational-efficiency pipeline.                                *)
(*                                                                         *)
(* Returns, thresholds and costs are fixed-point numbers in units of       *)
(* 1e-4 (one basis point): 0.02 is 200, 0.0005 is 5.  A float that may be  *)
(* missing is a record [nan, v]; comparisons with a missing value are      *)
(* false, as for IEEE NaN.                                                 *)
(***************************************************************************)
EXTENDS Integers, Sequences, FiniteSets, TLC

VARIABLES
    simIn,      \* input table of a strategy simulation: pred, ret_petr4, cdi_daily
    simPc,      \* which simulator runs next
    fvOut,      \* columns written by FairValueBacktest.run
    naiveOut,   \* columns written by NaiveDirectionalBacktest.run
    cmpOut,     \* (strat_ret_net, trades.sum()) of run_fair_value_backtest
    estIn,      \* the aligned dataset of an estimation: row count and train size
    estPc,      \* which estimation step runs next
    nestedOut,  \* run_estimation: rolling_params, lagged_params, pred_m2, M2 sample
    dynOut,     \* run_dynamic_capm: pred_alpha/pred_beta, pred_dynamic_capm, df_test
    macroOut,   \* fit_predict_rolling: one forecast per target date
    rollR2Out,  \* calc_rolling_r2: one result row per reference date
    m6Out,      \* train_model / save_results: final fit and pred_prob
    fitOut,     \* the models fit once on the training rows: M3, M6 (XGBoost), M5-H
    metIn,      \* training targets and a test sample: y_train, y_true, y_pred
    metPc,      \* which metric function runs next
    metOut,     \* R2_OOS as reported by each implementation, per model
    alIn,       \* daily dates and the quarterly tables (Q-VAL, factors) as stored
    alPc,       \* which loader runs next
    alOut,      \* the merged tables of load_and_prepare_data and prep_ml_data.run
    btIn,       \* backtest_m6: the joined predictions and market table, one record per date
    btPc,       \* which step of backtest_m6.main runs next
    btOut,      \* backtest_m6: the rows kept, their positions, returns and metrics
    fundIn,     \* calc_metrics: the fundamentals, returns and CDI tables read
    fundPc,     \* whether calculate_metrics has still to run
    fundOut,    \* calc_metrics: the assumptions and the merged quarterly table
    zIn,        \* calc_zscore: one metric column of metrics.parquet, as stored
    zPc,        \* whether calculate_zscores has still to run
    zOut        \* calc_zscore: the z-score column written for the metric

simVars == <<simIn, simPc, fvOut, naiveOut, cmpOut>>

estVars == <<estIn, estPc, nestedOut, dynOut, macroOut, rollR2Out, m6Out, fitOut>>

metVars == <<metIn, metPc, metOut>>

alVars == <<alIn, alPc, alOut>>

btVars == <<btIn, btPc, btOut>>

fundVars == <<fundIn, fundPc, fundOut>>

zVars == <<zIn, zPc, zOut>>

vars == <<simIn, simPc, fvOut, naiveOut, cmpOut,
          estIn, estPc, nestedOut, dynOut, macroOut, rollR2Out, m6Out, fitOut,
          metIn, metPc, metOut, alIn, alPc, alOut, btIn, btPc, btOut,
          fundIn, fundPc, fundOut, zIn, zPc, zOut>>

-----------------------------------------------------------------------------
(* Bounds of the model *)

MaxDays == 4

MaxObs == 277

MaxTest == 3

MaxSample == 2

MaxTrain == 2

MaxRows == 3

MaxQuarters == 2

MaxBtDays == 2

\* windows of fit_predict_rolling whose fit may raise
MaxFail == 2

\* daily rows before the first row of the aligned dataset
MaxLead == 1

\* quarters in a metric column of calc_zscore
MaxZQuarters == 4

\* quarters in the fundamentals file of calc_metrics
MaxFundQuarters == 2

-----------------------------------------------------------------------------
(* Floats *)

One == 10000

NaN == [nan |-> TRUE, v |-> 0]

Num(x) == [nan |-> FALSE, v |-> x]

IsNaN(a) == a.nan

Gt(a, b) == ~a.nan /\ ~b.nan /\ a.v > b.v

Lt(a, b) == ~a.nan /\ ~b.nan /\ a.v < b.v

Abs(x) == IF x < 0 THEN -x ELSE x

Max(a, b) == IF a > b THEN a ELSE b

\* a result that has not been produced yet
NoOut == [done |-> FALSE]

FxMul(a, b) == (a * b) \div One

FxDiv(a, b) == (a * One) \div b

RECURSIVE FxPow(_, _)
FxPow(b, n) == IF n = 0 THEN One ELSE FxMul(FxPow(b, n - 1), b)

RECURSIVE SumSeq(_)
SumSeq(s) == IF s = <<>> THEN 0 ELSE Head(s) + SumSeq(Tail(s))

NotComputed == [kind |-> "none", num |-> 0, den |-> 1]

FloatNaN == [kind |-> "nan", num |-> 0, den |-> 1]

FloatNegInf == [kind |-> "neginf", num |-> 0, den |-> 1]

Raised == [kind |-> "raise", num |-> 0, den |-> 1]

Finite(num, den) == [kind |-> "finite", num |-> num, den |-> den]

-----------------------------------------------------------------------------
(* A subsystem that is not running *)

SimIdle ==
    /\ simIn = [pred |-> <<>>, ret_petr4 |-> <<>>, cdi_daily |-> <<>>]
    /\ simPc = "done"
    /\ fvOut = NoOut
    /\ naiveOut = NoOut
    /\ cmpOut = NoOut

EstIdle ==
    /\ estIn = [n |-> 0, ntrain |-> 0]
    /\ estPc = "done"
    /\ nestedOut = [stage |-> "none"]
    /\ dynOut = NoOut
    /\ macroOut = NoOut
    /\ rollR2Out = NoOut
    /\ m6Out = NoOut
    /\ fitOut = NoOut

\* results = {} / metrics not yet written
NoMetrics ==
    [nested |-> NotComputed, m0_hm |-> NotComputed, m3 |-> NotComputed,
     dynamic |-> NotComputed, legacy |-> NotComputed,
     naive_rw |-> NotComputed, naive_hm |-> NotComputed]

MetIdle ==
    /\ metIn = [y_train |-> <<>>, warm |-> 0, y_true |-> <<>>, y_pred |-> <<>>,
                y_train_mean |-> 0]
    /\ metPc = "done"
    /\ metOut = NoMetrics

AlIdle ==
    /\ alIn = [dates |-> <<>>, qval |-> <<>>, factors |-> <<>>]
    /\ alPc = "done"
    /\ alOut = [nested |-> NoOut, prep |-> NoOut, backtest |-> NoOut]

BtIdle ==
    /\ btIn = <<>>
    /\ btPc = "done"
    /\ btOut = [stage |-> "none"]

FundIdle ==
    /\ fundIn = [df_fund |-> <<>>, df_ret |-> <<>>, df_cdi |-> <<>>]
    /\ fundPc = "done"
    /\ fundOut = NoOut

ZIdle ==
    /\ zIn = [series |-> <<>>, higher_is_better |-> TRUE]
    /\ zPc = "done"
    /\ zOut = NoOut

-----------------------------------------------------------------------------
(* pandas column primitives on a column without missing values *)

\* s.shift(1).fillna(0)
ShiftFill0(s) == [i \in 1..Len(s) |-> IF i = 1 THEN 0 ELSE s[i - 1]]

\* s.diff().abs().fillna(0)
DiffAbsFill0(s) == [i \in 1..Len(s) |-> IF i = 1 THEN 0 ELSE Abs(s[i] - s[i - 1])]

\* the product of a column of fixed-point factors, taken left to right
RECURSIVE Prod(_)
Prod(s) ==
    IF Len(s) = 1 THEN s[1]
    ELSE FxMul(Prod(SubSeq(s, 1, Len(s) - 1)), s[Len(s)])

\* 1 + the running sum of the returns: equity without compounding
CumSumPlusOne(r) == [i \in 1..Len(r) |-> One + SumSeq(SubSeq(r, 1, i))]

\* (1 + r).cumprod()
CumProd(r) ==
    [i \in 1..Len(r) |-> Prod([k \in 1..i |-> One + r[k]])]

-----------------------------------------------------------------------------
(* Strategy simulators: backtest_fair_value.py, gen_backtest_comparison.py *)

COST_BPS == 5

CMP_COST_BPS == 10

HORIZON == 21

ENTRY_THRESHOLD == 200

EXIT_THRESHOLD == 0

\* (1 + cdi_daily) ** HORIZON - 1
Cdi21dProxy(cdi, horizon) == FxPow(One + cdi, horizon) - One

\* (1 + pred) / (1 + cdi_21d_proxy) - 1, missing when the prediction is
UpsideOf(p, cdi, horizon) ==
    IF IsNaN(p) THEN NaN
    ELSE Num(FxDiv(One + p.v, One + Cdi21dProxy(cdi, horizon)) - One)

\* FVStep with the entry comparison made inclusive (>= for >)
FVStepInclusive(current_pos, upside, entry, exit) ==
    IF current_pos = 0
    THEN IF Gt(upside, entry) \/ (~upside.nan /\ upside.v = entry.v) THEN 1 ELSE 0
    ELSE IF Lt(upside, exit) THEN 0 ELSE 1

\* FVStep with the exit test written as "not upside >= exit", which a missing
\* upside satisfies
FVStepExitOnMissing(current_pos, upside, entry, exit) ==
    IF current_pos = 0
    THEN IF Gt(upside, entry) THEN 1 ELSE 0
    ELSE IF upside.nan \/ Lt(upside, exit) THEN 0 ELSE 1

\* one pass of the body of FairValueBacktest.run's loop
FVStep(current_pos, upside, entry, exit) ==
    IF current_pos = 0
    THEN IF Gt(upside, entry) THEN 1 ELSE 0
    ELSE IF Lt(upside, exit) THEN 0 ELSE 1

\* the loop of FairValueBacktest.run: positions[i] after each date
RECURSIVE FVPositions(_, _, _)
FVPositions(upside_arr, entry, exit) ==
    IF upside_arr = <<>> THEN <<>>
    ELSE LET n == Len(upside_arr)
             before == FVPositions(SubSeq(upside_arr, 1, n - 1), entry, exit)
             current_pos == IF n = 1 THEN 0 ELSE before[n - 1]
         IN  Append(before, FVStep(current_pos, upside_arr[n], entry, exit))

\* FVGross without the one-date shift of the position
FVGrossNoLag(position, ret_petr4, cdi_daily) ==
    [i \in 1..Len(position) |->
        position[i] * ret_petr4[i] + (1 - position[i]) * cdi_daily[i]]

\* strategy_gross of FairValueBacktest.run
FVGross(position, ret_petr4, cdi_daily) ==
    LET pos_lag == ShiftFill0(position)
    IN  [i \in 1..Len(position) |->
            pos_lag[i] * ret_petr4[i] + (1 - pos_lag[i]) * cdi_daily[i]]

FairValueBacktestRun(df, entry, exit) ==
    LET n == Len(df.pred)
        upside == [i \in 1..n |-> UpsideOf(df.pred[i], df.cdi_daily[i], HORIZON)]
        position == FVPositions(upside, Num(entry), Num(exit))
        pos_change == DiffAbsFill0(position)
        costs == [i \in 1..n |-> pos_change[i] * COST_BPS]
        strategy_gross == FVGross(position, df.ret_petr4, df.cdi_daily)
        costs_lag == [i \in 1..n |-> ShiftFill0(pos_change)[i] * COST_BPS]
        strategy_net == [i \in 1..n |-> strategy_gross[i] - costs_lag[i]]
    IN  [upside |-> upside, position |-> position, pos_change |-> pos_change,
         costs |-> costs, strategy_gross |-> strategy_gross,
         strategy_net |-> strategy_net, equity |-> CumProd(strategy_net)]

\* NaiveDirectionalBacktest.run
NaiveGross(position, ret_petr4, cdi_daily) ==
    LET pos_lag == ShiftFill0(position)
    IN  [i \in 1..Len(position) |->
            pos_lag[i] * ret_petr4[i] + (1 - pos_lag[i]) * cdi_daily[i]]

NaiveDirectionalBacktestRun(df) ==
    LET n == Len(df.pred)
        position == [i \in 1..n |-> IF Gt(df.pred[i], Num(0)) THEN 1 ELSE 0]
        pos_change == DiffAbsFill0(position)
        strategy_gross == NaiveGross(position, df.ret_petr4, df.cdi_daily)
        costs_lag == [i \in 1..n |-> ShiftFill0(pos_change)[i] * COST_BPS]
        strategy_net == [i \in 1..n |-> strategy_gross[i] - costs_lag[i]]
    IN  [position |-> position, pos_change |-> pos_change,
         strategy_gross |-> strategy_gross, strategy_net |-> strategy_net,
         equity |-> CumProd(strategy_net)]

\* print_metrics: trades = df['pos_change'].sum()
PrintMetricsTrades(df) == SumSeq(df.pos_change)

\* one pass of the body of run_fair_value_backtest's loop
CmpStep(current_pos, u, entry, exit) ==
    IF current_pos = 0
    THEN IF Gt(u, entry) THEN 1 ELSE 0
    ELSE IF Lt(u, exit) THEN 0 ELSE 1

RECURSIVE CmpPositions(_, _, _)
CmpPositions(upside_vals, entry, exit) ==
    IF upside_vals = <<>> THEN <<>>
    ELSE LET n == Len(upside_vals)
             before == CmpPositions(SubSeq(upside_vals, 1, n - 1), entry, exit)
             current_pos == IF n = 1 THEN 0 ELSE before[n - 1]
         IN  Append(before, CmpStep(current_pos, upside_vals[n], entry, exit))

\* strat_ret of run_fair_value_backtest
CmpGross(signal, ret_petr4, cdi_daily) ==
    [i \in 1..Len(signal) |->
        signal[i] * ret_petr4[i] + (1 - signal[i]) * cdi_daily[i]]

RunFairValueBacktest(df_preds, horizon, entry, exit) ==
    LET n == Len(df_preds.pred)
        upside == [i \in 1..n |->
                      UpsideOf(df_preds.pred[i], df_preds.cdi_daily[i], horizon)]
        positions == CmpPositions(upside, Num(entry), Num(exit))
        signal == ShiftFill0(positions)
        strat_ret == CmpGross(signal, df_preds.ret_petr4, df_preds.cdi_daily)
        trades == DiffAbsFill0(signal)
        strat_ret_net == [i \in 1..n |-> strat_ret[i] - trades[i] * CMP_COST_BPS]
    IN  [upside |-> upside, positions |-> positions, signal |-> signal,
         strat_ret |-> strat_ret, trades |-> trades,
         strat_ret_net |-> strat_ret_net, trades_sum |-> SumSeq(trades)]

-----------------------------------------------------------------------------
(* Rolling / walk-forward estimators.  Rows of a dataset are numbered 1..n  *)
(* in date order.  The fitting primitive is a black box: a fit is recorded  *)
(* by the span of rows [lo, hi] it was estimated on, and a forecast by the  *)
(* fit it uses and the row whose regressors it is evaluated on.             *)

ROLLING_WINDOW == 252

MIN_OBS == 126

R2_WINDOW_SIZE == 252

R2_STEP_SIZE == 5

MACRO_WINDOW_SIZE == 1000

MACRO_SHORT_MARGIN == 100

M5_ROLLING_WINDOW == 252

NoFit == [nan |-> TRUE, lo |-> 0, hi |-> 0]

Fit(lo, hi) == [nan |-> FALSE, lo |-> lo, hi |-> hi]

NoForecast == [kind |-> "nan", fit |-> NoFit, exog |-> 0]

FilledZero == [kind |-> "filled", fit |-> NoFit, exog |-> 0]

\* params * regressors of row t: missing when the parameters are
Forecast(params, t) ==
    IF params.nan THEN NoForecast ELSE [kind |-> "model", fit |-> params, exog |-> t]

\* Series.fillna(0) on a forecast
FillNa0(f) == IF f.kind = "nan" THEN FilledZero ELSE f

\* RollingOLS(endog, exog, window=window).fit().params over nobs rows: the
\* estimate stored at row i is fit on the window of rows ending at i
RollingOLSParams(nobs, window) ==
    [i \in 1..nobs |-> IF i >= window THEN Fit(i - window + 1, i) ELSE NoFit]

\* DataFrame.shift(1) of a parameter table
ShiftParams(params) ==
    [i \in DOMAIN params |-> IF i = 1 THEN NoFit ELSE params[i - 1]]

\* the parameter table used without the shift
UnshiftedParams(params) == params

\* rolling_params.shift(1) in run_estimation
LaggedParams(rolling_params) == ShiftParams(rolling_params)

TestIndex(df) == (df.ntrain + 1)..df.n

\* pred_m2 of run_estimation over the test rows
PredM2(lagged_params, df) ==
    [t \in TestIndex(df) |-> FillNa0(Forecast(lagged_params[t], t))]

\* valid_idx = ~np.isnan(pred_m2)
ValidIdx(pred_m2) == {t \in DOMAIN pred_m2 : pred_m2[t].kind # "nan"}

\* pred_alpha / pred_beta of run_dynamic_capm
DynLaggedParams(rolling) == ShiftParams(rolling)

\* df_test of run_dynamic_capm after dropna(subset=['pred_dynamic_capm'])
DynTestRows(pred_dynamic_capm, df) ==
    {t \in TestIndex(df) : pred_dynamic_capm[t].kind # "nan"}

\* window_size chosen by run_macro_forecast for a series of n rows
MacroWindowSize(n) ==
    IF n < MACRO_WINDOW_SIZE + MACRO_SHORT_MARGIN THEN n \div 2 ELSE MACRO_WINDOW_SIZE

\* fit_predict_rolling: for i in range(window_size, n), train_data is
\* series.iloc[i-window_size:i] and the target date is series.index[i]
\* raises is the set of target rows at whose window arch_model(...).fit()
\* raises; the except branch then emits train_data.mean() and
\* train_data.std() of the same window, and nothing is printed or stored
FitPredictRolling(n, window_size, raises) ==
    [t \in (window_size + 1)..n |->
        IF t \in raises
        THEN [kind |-> "window_mean", fit |-> Fit(t - window_size, t - 1), exog |-> 0]
        ELSE [kind |-> "model", fit |-> Fit(t - window_size, t - 1), exog |-> 0]]

\* the windows fit_predict_rolling reports as failed: its result holds the
\* two forecast columns only and the except branch writes no message
ReportedFailures(n, window_size, raises) == {}

\* the target rows whose fit may raise, the first MaxFail windows
FailableRows(n, window_size) ==
    {t \in (window_size + 1)..n : t <= window_size + MaxFail}

\* the values of range(start, stop, step), step > 0
RangeStep(start, stop, step) ==
    {i \in start..(stop - 1) : (i - start) % step = 0}

\* calc_rolling_r2: for i in range(window_size, total_obs, step_size) the
\* subset is df_model.iloc[i-window_size:i], dated by its last row
CalcRollingR2(total_obs, window_size, step_size) ==
    [i \in RangeStep(window_size, total_obs, step_size) |->
        Fit(i - window_size + 1, i)]

\* train_model's final model.fit(X, y) and save_results' predict_proba(X)
M6PredProb(n) ==
    [t \in 1..n |-> [kind |-> "model", fit |-> Fit(1, n), exog |-> t]]

M6_HORIZON == 0

M5H_HORIZON == 21

\* a model fit once: x_rows are the rows it is estimated on, stop_rows the rows
\* of the eval_set that picks the number of boosting rounds, and the target of
\* row t is computed from rows t..t+fwd
NoStaticFit == [fitted |-> FALSE, x_rows |-> {}, stop_rows |-> {}, fwd |-> 0]

\* estimator.fit(X, y): raises on an empty sample
FitOn(x_rows, stop_rows, fwd) ==
    IF x_rows = {} THEN NoStaticFit
    ELSE [fitted |-> TRUE, x_rows |-> x_rows, stop_rows |-> stop_rows, fwd |-> fwd]

\* df.dropna(subset=['y_hat_m2']): the rows that have lagged rolling parameters
FeatureRows(lagged_params) == {t \in DOMAIN lagged_params : ~lagged_params[t].nan}

\* df[df.index < TRAIN_TEST_SPLIT]
TrainRows(rows, df) == {t \in rows : t <= df.ntrain}

\* df[df.index >= TRAIN_TEST_SPLIT]
TestRows(rows, df) == {t \in rows : t > df.ntrain}

\* sm.OLS(train_reg['excess_ret_petr4'], train_reg[features]).fit()
OlsTrainReg(df, lagged_params) ==
    FitOn(TrainRows(FeatureRows(lagged_params), df), {}, 0)

\* test_reg = df_reg[df_reg.index >= TRAIN_TEST_SPLIT], df_reg being
\* df.dropna(subset=['y_hat_m2'])
TestReg(df, lagged_params) == TestRows(FeatureRows(lagged_params), df)

\* the index of m5_predictions.parquet with target_return one date ahead
\* (shift(-1)), which has no row for the last date
M5PredsIndexPredictive(df, lead) ==
    {t \in TestIndex(df) : t + lead > M5_ROLLING_WINDOW /\ t + 1 <= df.n}

\* the index of m5_predictions.parquet among the rows of df: the test rows of
\* train_m5_models.load_data, whose y_hat_m2 comes from a rolling fit over
\* the daily table before any row is dropped
M5PredsIndex(df, lead) ==
    {t \in TestIndex(df) : t + lead > M5_ROLLING_WINDOW}

\* common_idx = test_reg.index.intersection(df_m5_preds.index)
CommonIdx(test_reg, m5_index) == test_reg \cap m5_index

\* train_and_evaluate: XGBRegressor(early_stopping_rounds=50).fit(X_train,
\* y_train, eval_set=[(X_train, y_train), (X_test, y_test)]); early stopping
\* follows the last eval_set
TrainAndEvaluate(df, lagged_params, horizon) ==
    LET df_model == {t \in FeatureRows(lagged_params) : t + horizon <= df.n}
    IN  FitOn(TrainRows(df_model, df), TestRows(df_model, df), horizon)

\* load_data_horizon: rows with every feature and a complete forward window
\* ret_petr4[t..t+horizon-1] for target_return_21d
LoadDataHorizon(df, lagged_params, horizon) ==
    {t \in FeatureRows(lagged_params) : t + horizon - 1 <= df.n}

\* X_train.iloc[:k] for a set of row numbers
ILocHead(rows, k) == {t \in rows : Cardinality({u \in rows : u <= t}) <= k}

\* train_horizon_models: pipe_huber.fit(X_train, y_train)
HuberHorizonFit(df, lagged_params, horizon) ==
    FitOn(TrainRows(LoadDataHorizon(df, lagged_params, horizon), df), {}, horizon - 1)

\* train_horizon_models: val_size = int(len(X_train) * 0.2); XGBoost fit on
\* X_train.iloc[:-val_size] with eval_set X_train.iloc[-val_size:], where
\* iloc[:-0] is empty and iloc[-0:] is everything
XgbHorizonFit(df, lagged_params, horizon) ==
    LET train == TrainRows(LoadDataHorizon(df, lagged_params, horizon), df)
        val_size == (Cardinality(train) * 2) \div 10
        sub == IF val_size = 0 THEN {} ELSE ILocHead(train, Cardinality(train) - val_size)
    IN  FitOn(sub, train \ sub, horizon - 1)

EstInit ==
    /\ \E n \in 0..MaxObs : \E k \in Max(0, n - MaxTest)..n :
          estIn = [n |-> n, ntrain |-> k]
    /\ estPc = "fit"
    /\ nestedOut = [stage |-> "none"]
    /\ dynOut = NoOut
    /\ macroOut = NoOut
    /\ rollR2Out = NoOut
    /\ m6Out = NoOut
    /\ fitOut = NoOut
    /\ SimIdle
    /\ MetIdle
    /\ AlIdle
    /\ BtIdle
    /\ FundIdle
    /\ ZIdle

\* run_estimation: RollingOLS(...).fit().params
EstFitRolling ==
    /\ estPc = "fit"
    /\ nestedOut' = [stage |-> "fit",
                     rolling_params |-> RollingOLSParams(estIn.n, ROLLING_WINDOW)]
    /\ estPc' = "shift"
    /\ UNCHANGED <<estIn, dynOut, macroOut, rollR2Out, m6Out, fitOut>>
    /\ UNCHANGED <<simVars, metVars, alVars, btVars, fundVars, zVars>>

\* run_estimation: lagged_params = rolling_params.shift(1)
EstShift ==
    /\ estPc = "shift"
    /\ nestedOut' = [stage |-> "shift",
                     rolling_params |-> nestedOut.rolling_params,
                     lagged_params |-> LaggedParams(nestedOut.rolling_params)]
    /\ estPc' = "predict"
    /\ UNCHANGED <<estIn, dynOut, macroOut, rollR2Out, m6Out, fitOut>>
    /\ UNCHANGED <<simVars, metVars, alVars, btVars, fundVars, zVars>>

\* run_estimation: the rows results['M0_RW'], ['M0_HM'] and ['M1_Static'] are
\* scored on (y_test), then pred_m2, valid_idx and the sample of
\* results['M2_Dynamic']
EstPredictM2 ==
    /\ estPc = "predict"
    /\ LET pred_m2 == PredM2(nestedOut.lagged_params, estIn)
       IN  nestedOut' = [stage |-> "scored",
                         rolling_params |-> nestedOut.rolling_params,
                         lagged_params |-> nestedOut.lagged_params,
                         pred_m2 |-> pred_m2,
                         m0_sample |-> TestIndex(estIn),
                         m2_sample |-> ValidIdx(pred_m2)]
    /\ estPc' = "dynamic"
    /\ UNCHANGED <<estIn, dynOut, macroOut, rollR2Out, m6Out, fitOut>>
    /\ UNCHANGED <<simVars, metVars, alVars, btVars, fundVars, zVars>>

\* run_dynamic_capm
EstDynamicCapm ==
    /\ estPc = "dynamic"
    /\ LET rolling == RollingOLSParams(estIn.n, ROLLING_WINDOW)
           pred_params == DynLaggedParams(rolling)
           pred == [t \in 1..estIn.n |-> Forecast(pred_params[t], t)]
       IN  dynOut' = [done |-> TRUE, rolling |-> rolling, pred_params |-> pred_params,
                      pred_dynamic_capm |-> pred,
                      df_test |-> DynTestRows(pred, estIn)]
    /\ estPc' = "macro"
    /\ UNCHANGED <<estIn, nestedOut, macroOut, rollR2Out, m6Out, fitOut>>
    /\ UNCHANGED <<simVars, metVars, alVars, btVars, fundVars, zVars>>

\* run_macro_forecast: fit_predict_rolling(series, window_size)
EstMacroForecast ==
    /\ estPc = "macro"
    /\ \E raises \in SUBSET FailableRows(estIn.n, MacroWindowSize(estIn.n)) :
          macroOut' = [done |-> TRUE,
                       raised |-> raises,
                       reported |-> ReportedFailures(estIn.n, MacroWindowSize(estIn.n), raises),
                       forecast |-> FitPredictRolling(estIn.n, MacroWindowSize(estIn.n), raises)]
    /\ estPc' = "rolling_r2"
    /\ UNCHANGED <<estIn, nestedOut, dynOut, rollR2Out, m6Out, fitOut>>
    /\ UNCHANGED <<simVars, metVars, alVars, btVars, fundVars, zVars>>

\* calc_rolling_r2
EstRollingR2 ==
    /\ estPc = "rolling_r2"
    /\ rollR2Out' = [done |-> TRUE,
                     results |-> CalcRollingR2(estIn.n, R2_WINDOW_SIZE, R2_STEP_SIZE)]
    /\ estPc' = "m6"
    /\ UNCHANGED <<estIn, nestedOut, dynOut, macroOut, m6Out, fitOut>>
    /\ UNCHANGED <<simVars, metVars, alVars, btVars, fundVars, zVars>>

\* run_training: train_model, save_results
EstTrainM6 ==
    /\ estPc = "m6"
    /\ m6Out' = [done |-> TRUE, pred_prob |-> M6PredProb(estIn.n)]
    /\ estPc' = "static"
    /\ UNCHANGED <<estIn, nestedOut, dynOut, macroOut, rollR2Out, fitOut>>
    /\ UNCHANGED <<simVars, metVars, alVars, btVars, fundVars, zVars>>

\* run_estimation: M3 (and M4, M5) fit by OLS on train_reg and scored on
\* test_reg, M5_Linear and M5_ML scored on common_idx; lead is the number of
\* daily rows that precede the first row load_and_prepare_data keeps
EstStaticOLS ==
    /\ estPc = "static"
    /\ \E lead \in 0..MaxLead :
          fitOut' = [done |-> FALSE,
                     m3 |-> OlsTrainReg(estIn, nestedOut.lagged_params),
                     m3_sample |-> TestReg(estIn, nestedOut.lagged_params),
                     m5_sample |-> CommonIdx(TestReg(estIn, nestedOut.lagged_params),
                                             M5PredsIndex(estIn, lead)),
                     m6 |-> NoStaticFit, huber_h |-> NoStaticFit,
                     xgb_h |-> NoStaticFit]
    /\ estPc' = "gen_m6"
    /\ UNCHANGED <<estIn, nestedOut, dynOut, macroOut, rollR2Out, m6Out>>
    /\ UNCHANGED <<simVars, metVars, alVars, btVars, fundVars, zVars>>

\* gen_model_m6.run: train_and_evaluate(df, features_m6, target_col, name)
EstTrainAndEvaluate ==
    /\ estPc = "gen_m6"
    /\ fitOut' = [fitOut EXCEPT
                     !.m6 = TrainAndEvaluate(estIn, nestedOut.lagged_params, M6_HORIZON)]
    /\ estPc' = "horizon"
    /\ UNCHANGED <<estIn, nestedOut, dynOut, macroOut, rollR2Out, m6Out>>
    /\ UNCHANGED <<simVars, metVars, alVars, btVars, fundVars, zVars>>

\* train_horizon_models
EstTrainHorizon ==
    /\ estPc = "horizon"
    /\ fitOut' = [fitOut EXCEPT
                     !.done = TRUE,
                     !.huber_h = HuberHorizonFit(estIn, nestedOut.lagged_params, M5H_HORIZON),
                     !.xgb_h = XgbHorizonFit(estIn, nestedOut.lagged_params, M5H_HORIZON)]
    /\ estPc' = "done"
    /\ UNCHANGED <<estIn, nestedOut, dynOut, macroOut, rollR2Out, m6Out>>
    /\ UNCHANGED <<simVars, metVars, alVars, btVars, fundVars, zVars>>

EstNext ==
    \/ EstFitRolling \/ EstShift \/ EstPredictM2 \/ EstDynamicCapm
    \/ EstMacroForecast \/ EstRollingR2 \/ EstTrainM6
    \/ EstStaticOLS \/ EstTrainAndEvaluate \/ EstTrainHorizon

SpecEst == EstInit /\ [][EstNext]_vars

-----------------------------------------------------------------------------
(* R2_OOS.  A float result is [kind, num, den]: the finite number num/den,  *)
(* or one of IEEE's nan and -inf, or "raise" when the division raises.      *)

\* sum of squared differences of two columns (n times their mean squared error)
SumSqErr(a, b) == SumSeq([i \in 1..Len(a) |-> (a[i] - b[i]) * (a[i] - b[i])])

\* 1 - (mse / mse_naive) on numpy float64 scalars: a zero divisor gives inf, or
\* nan for 0/0, with a warning and no exception
OneMinusRatioNumpy(sse, sse_naive) ==
    IF sse_naive = 0
    THEN IF sse = 0 THEN FloatNaN ELSE FloatNegInf
    ELSE Finite(sse_naive - sse, sse_naive)

\* the same expression on Python floats: a zero divisor raises ZeroDivisionError
OneMinusRatioPython(sse, sse_naive) ==
    IF sse_naive = 0 THEN Raised ELSE Finite(sse_naive - sse, sse_naive)

Constant(y_true, c) == [i \in 1..Len(y_true) |-> c]

\* R2_OOS of calculate_metrics (estimate_nested_models.py)
CalculateMetricsR2(y_true, y_pred, y_train_mean) ==
    OneMinusRatioNumpy(SumSqErr(y_true, y_pred),
                       SumSqErr(y_true, Constant(y_true, y_train_mean)))

\* calculate_r2_oos (dynamic_capm.py)
CalculateR2Oos(y_true, y_pred, y_benchmark) ==
    IF SumSqErr(y_true, y_benchmark) = 0 THEN FloatNaN
    ELSE OneMinusRatioNumpy(SumSqErr(y_true, y_pred), SumSqErr(y_true, y_benchmark))

\* calc_oos_r2 (legacy oos_validation.py); mean_squared_error returns a numpy
\* scalar or a Python float depending on the scikit-learn build
CalcOosR2(y_true, y_pred, y_train_mean, python_float) ==
    IF python_float
    THEN OneMinusRatioPython(SumSqErr(y_true, y_pred),
                             SumSqErr(y_true, Constant(y_true, y_train_mean)))
    ELSE OneMinusRatioNumpy(SumSqErr(y_true, y_pred),
                            SumSqErr(y_true, Constant(y_true, y_train_mean)))

\* targets in units in which the mean of up to five of them is exact
TargetValues == {-60, 0, 60}

\* Series.mean
Mean(s) == SumSeq(s) \div Len(s)

\* full_y.expanding().mean().shift(1) read at the test rows: the forecast for
\* test row j is the mean of every target before it, earlier test rows included
ExpandingMeanShift1(y_train, y_test) ==
    [j \in 1..Len(y_test) |-> Mean(y_train \o SubSeq(y_test, 1, j - 1))]

\* the random-walk forecast np.zeros_like(y_test) in place of pred_m0_hm
PredM0HmZeros(y_test, y_train_mean) == Constant(y_test, 0)

\* pred_m0_hm = np.full_like(y_test, y_train_mean)
PredM0Hm(y_test, y_train_mean) == Constant(y_test, y_train_mean)

\* train_reg: the training rows left after dropna(subset=['y_hat_m2']) removed
\* the warm leading rows that have no lagged rolling parameters
TrainReg(y_train, warm) == SubSeq(y_train, warm + 1, Len(y_train))

\* train / test split of the target; y_train_mean = y_train.mean()
MetInit ==
    /\ \E k \in 1..MaxTrain, n \in 1..MaxSample :
       \E tr \in [1..k -> TargetValues], w \in 0..(k - 1),
          yt \in [1..n -> TargetValues], yp \in [1..n -> TargetValues] :
          metIn = [y_train |-> tr, warm |-> w, y_true |-> yt, y_pred |-> yp,
                   y_train_mean |-> Mean(tr)]
    /\ metPc = "nested"
    /\ metOut = NoMetrics
    /\ SimIdle
    /\ EstIdle
    /\ AlIdle
    /\ BtIdle
    /\ FundIdle
    /\ ZIdle

\* run_estimation: results[m] = calculate_metrics(y, pred, y_train_mean, k) for
\* M0_HM, for a model fit on train and for a model fit on train_reg
MetNested ==
    /\ metPc = "nested"
    /\ metOut' = [metOut EXCEPT
          !.m0_hm = CalculateMetricsR2(metIn.y_true,
                                       PredM0Hm(metIn.y_true, metIn.y_train_mean),
                                       metIn.y_train_mean),
          !.nested = CalculateMetricsR2(metIn.y_true, metIn.y_pred, metIn.y_train_mean),
          !.m3 = CalculateMetricsR2(metIn.y_true, metIn.y_pred, metIn.y_train_mean)]
    /\ metPc' = "dynamic"
    /\ UNCHANGED <<metIn, simVars, estVars, alVars, btVars, fundVars, zVars>>

\* run_dynamic_capm: calculate_r2_oos(y_true, y_pred, y_bench) with the
\* expanding-mean benchmark
MetDynamic ==
    /\ metPc = "dynamic"
    /\ metOut' = [metOut EXCEPT !.dynamic =
                     CalculateR2Oos(metIn.y_true, metIn.y_pred,
                                    ExpandingMeanShift1(metIn.y_train, metIn.y_true))]
    /\ metPc' = "legacy"
    /\ UNCHANGED <<metIn, simVars, estVars, alVars, btVars, fundVars, zVars>>

\* run_oos_validation: calc_oos_r2(y_true, y_pred, y_train_mean)
MetLegacy ==
    /\ metPc = "legacy"
    /\ \E python_float \in BOOLEAN :
          metOut' = [metOut EXCEPT !.legacy =
                        CalcOosR2(metIn.y_true, metIn.y_pred, metIn.y_train_mean,
                                  python_float)]
    /\ metPc' = "naive"
    /\ UNCHANGED <<metIn, simVars, estVars, alVars, btVars, fundVars, zVars>>

\* run_naive_benchmarks: RW against the expanding-mean HM; HM is the literal 0.0
MetNaive ==
    /\ metPc = "naive"
    /\ metOut' = [metOut EXCEPT
          !.naive_rw = CalculateR2Oos(metIn.y_true, Constant(metIn.y_true, 0),
                                      ExpandingMeanShift1(metIn.y_train, metIn.y_true)),
          !.naive_hm = Finite(0, 1)]
    /\ metPc' = "done"
    /\ UNCHANGED <<metIn, simVars, estVars, alVars, btVars, fundVars, zVars>>

MetNext == MetNested \/ MetDynamic \/ MetLegacy \/ MetNaive

SpecMet == MetInit /\ [][MetNext]_vars

-----------------------------------------------------------------------------
(* Temporal alignment.  A date is 100 * month + day, months counted from    *)
(* January of the first year, on a calendar without leap years.             *)

DISCLOSURE_LAG_MONTHS == 3

MkDate(m, d) == 100 * m + d

DaysIn(m) ==
    LET moy == ((m - 1) % 12) + 1
    IN  IF moy = 2 THEN 28 ELSE IF moy \in {4, 6, 9, 11} THEN 30 ELSE 31

Min(a, b) == IF a < b THEN a ELSE b

\* date + pd.DateOffset(months=k): the day is clipped to the end of the month
AddMonths(date, k) ==
    LET m == (date \div 100) + k
    IN  MkDate(m, Min(date % 100, DaysIn(m)))

\* df['available_date'] = to_datetime(df['quarter_end']) + DateOffset(months=3)
WithAvailableDate(table) ==
    [i \in 1..Len(table) |->
        [quarter_end |-> table[i].quarter_end, val |-> table[i].val,
         available_date |-> AddMonths(table[i].quarter_end, DISCLOSURE_LAG_MONTHS)]]

\* the orders df.sort_values('available_date') can return: ascending in the
\* key, rows with equal keys in either order (the default sort is not stable)
SortValuesAvailable(table) ==
    {sorted \in [1..Len(table) -> {table[i] : i \in 1..Len(table)}] :
        /\ \A i, j \in 1..Len(table) : i # j => sorted[i] # sorted[j]
        /\ \A i, j \in 1..Len(table) :
              i < j => sorted[i].available_date <= sorted[j].available_date}

\* a row without a record given zeros in place of missing fields
MissingAsZero == [missing |-> FALSE, available_date |-> 0, val |-> 0]

Missing == [missing |-> TRUE, available_date |-> 0, val |-> 0]

Joined(rec) == [missing |-> FALSE, available_date |-> rec.available_date, val |-> rec.val]

\* the row of right that merge_asof(direction='forward') attaches to date
AsofForward(date, right) ==
    LET later == {j \in 1..Len(right) : right[j].available_date >= date}
    IN  IF later = {} THEN Missing
        ELSE Joined(right[CHOOSE j \in later : \A k \in later : j <= k])

\* the row of right that merge_asof(direction='backward') attaches to date:
\* the last row, in right's order, whose key is <= date
AsofBackward(date, right) ==
    LET earlier == {j \in 1..Len(right) : right[j].available_date <= date}
    IN  IF earlier = {} THEN Missing
        ELSE Joined(right[CHOOSE j \in earlier : \A k \in earlier : j >= k])

\* pd.merge_asof(left, right, left_on='date', right_on='available_date',
\* direction='backward'), one joined field per row of left
MergeAsof(dates, right) == [i \in 1..Len(dates) |-> AsofBackward(dates[i], right)]

\* the rows of seq that satisfy Keep, in order
RECURSIVE SelectRows(_, _)
SelectRows(rows, keep) ==
    IF rows = <<>> THEN <<>>
    ELSE IF Len(rows) \in keep
         THEN Append(SelectRows(SubSeq(rows, 1, Len(rows) - 1), keep), rows[Len(rows)])
         ELSE SelectRows(SubSeq(rows, 1, Len(rows) - 1), keep)

\* load_and_prepare_data with the date column of the merged frame taken from
\* the right key (the available_date of the Q-VAL record) instead of the left
LoadAndPrepareDataRekeyed(dates, qval_sorted, factors_sorted) ==
    LET q == MergeAsof(dates, qval_sorted)
        f == MergeAsof(dates, factors_sorted)
        df_full == [i \in 1..Len(dates) |->
                       [date |-> q[i].available_date, qval |-> q[i], factors |-> f[i]]]
        complete == {i \in 1..Len(dates) : ~q[i].missing /\ ~f[i].missing}
    IN  [done |-> TRUE, df_qval |-> qval_sorted, df_factors |-> factors_sorted,
         df_full |-> df_full, df_model |-> SelectRows(df_full, complete)]

\* load_and_prepare_data: both merges, then dropna on the needed columns
LoadAndPrepareData(dates, qval_sorted, factors_sorted) ==
    LET q == MergeAsof(dates, qval_sorted)
        f == MergeAsof(dates, factors_sorted)
        df_full == [i \in 1..Len(dates) |->
                       [date |-> dates[i], qval |-> q[i], factors |-> f[i]]]
        complete == {i \in 1..Len(dates) : ~q[i].missing /\ ~f[i].missing}
    IN  [done |-> TRUE, df_qval |-> qval_sorted, df_factors |-> factors_sorted,
         df_full |-> df_full, df_model |-> SelectRows(df_full, complete)]

\* load_data_backtest (gen_backtest_comparison.py): both merges, then dropna()
LoadDataBacktest(dates, qval_sorted, factors_sorted) ==
    LET q == MergeAsof(dates, qval_sorted)
        f == MergeAsof(dates, factors_sorted)
        merged == [i \in 1..Len(dates) |->
                      [date |-> dates[i], qval |-> q[i], factors |-> f[i]]]
        complete == {i \in 1..Len(dates) : ~q[i].missing /\ ~f[i].missing}
    IN  [done |-> TRUE, merged |-> merged, df |-> SelectRows(merged, complete)]

\* prep_ml_data.run up to dropna(subset=valid_z_cols): columns that are null
\* in every row are dropped from the subset, not the rows
PrepMlData(dates, zscores_sorted) ==
    LET z == MergeAsof(dates, zscores_sorted)
        df_merged == [i \in 1..Len(dates) |-> [date |-> dates[i], z |-> z[i]]]
        valid_z_cols == \E i \in 1..Len(dates) : ~z[i].missing
        kept == IF valid_z_cols THEN {i \in 1..Len(dates) : ~z[i].missing}
                ELSE 1..Len(dates)
    IN  [done |-> TRUE, df_merged |-> df_merged, df_out |-> SelectRows(df_merged, kept)]

PeriodEnds == {MkDate(11, 29), MkDate(11, 30), MkDate(12, 31)}

TradingDates == {MkDate(14, 27), MkDate(14, 28), MkDate(15, 1), MkDate(15, 31), MkDate(16, 1)}

FieldValues == {1, 2}

\* the elements of a set of integers as an ascending sequence
RECURSIVE Ascending(_)
Ascending(S) ==
    IF S = {} THEN <<>>
    ELSE LET top == CHOOSE x \in S : \A y \in S : y <= x
         IN  Append(Ascending(S \ {top}), top)

\* quarterly tables as stored: at most MaxQuarters rows, one per quarter_end,
\* in quarter_end order
QuarterlyTables ==
    UNION {
        {[i \in 1..Cardinality(Q) |-> [quarter_end |-> Ascending(Q)[i], val |-> v[i]]] :
            v \in [1..Cardinality(Q) -> FieldValues]} :
        Q \in {Q \in SUBSET PeriodEnds : Cardinality(Q) <= MaxQuarters}}

AlInit ==
    /\ \E D \in {D \in SUBSET TradingDates : Cardinality(D) <= MaxRows} :
       \E q \in QuarterlyTables, f \in QuarterlyTables :
          alIn = [dates |-> Ascending(D), qval |-> q, factors |-> f]
    /\ alPc = "nested"
    /\ alOut = [nested |-> NoOut, prep |-> NoOut, backtest |-> NoOut]
    /\ SimIdle
    /\ EstIdle
    /\ MetIdle
    /\ BtIdle
    /\ FundIdle
    /\ ZIdle

\* load_and_prepare_data (estimate_nested_models.py)
AlignNested ==
    /\ alPc = "nested"
    /\ \E q \in SortValuesAvailable(WithAvailableDate(alIn.qval)),
          f \in SortValuesAvailable(WithAvailableDate(alIn.factors)) :
          alOut' = [alOut EXCEPT !.nested = LoadAndPrepareData(alIn.dates, q, f)]
    /\ alPc' = "prep"
    /\ UNCHANGED <<alIn, simVars, estVars, metVars, btVars, fundVars, zVars>>

\* run (prep_ml_data.py)
AlignPrep ==
    /\ alPc = "prep"
    /\ \E z \in SortValuesAvailable(WithAvailableDate(alIn.qval)) :
          alOut' = [alOut EXCEPT !.prep = PrepMlData(alIn.dates, z)]
    /\ alPc' = "backtest"
    /\ UNCHANGED <<alIn, simVars, estVars, metVars, btVars, fundVars, zVars>>

\* load_data_backtest (gen_backtest_comparison.py)
AlignBacktest ==
    /\ alPc = "backtest"
    /\ \E q \in SortValuesAvailable(WithAvailableDate(alIn.qval)),
          f \in SortValuesAvailable(WithAvailableDate(alIn.factors)) :
          alOut' = [alOut EXCEPT !.backtest = LoadDataBacktest(alIn.dates, q, f)]
    /\ alPc' = "done"
    /\ UNCHANGED <<alIn, simVars, estVars, metVars, btVars, fundVars, zVars>>

AlNext == AlignNested \/ AlignPrep \/ AlignBacktest

SpecAlign == AlInit /\ [][AlNext]_vars

-----------------------------------------------------------------------------
(* Inputs of a simulation *)

PredValues == {Num(-100), Num(0), Num(100), Num(200), Num(300), NaN}

RetValues == {-100, 150}

CdiValues == {0, 1}

\* a path of asset returns: gains and losses of RetValues alternating from r
RetPath(n, r) ==
    [i \in 1..n |-> IF i % 2 = 1 THEN r ELSE CHOOSE q \in RetValues : q # r]

SimInit ==
    /\ \E n \in 1..MaxDays :
       \E p \in [1..n -> PredValues], r \in RetValues, c \in CdiValues :
          simIn = [pred |-> p, ret_petr4 |-> RetPath(n, r),
                   cdi_daily |-> [i \in 1..n |-> c]]
    /\ simPc = "naive"
    /\ fvOut = NoOut
    /\ naiveOut = NoOut
    /\ cmpOut = NoOut
    /\ EstIdle
    /\ MetIdle
    /\ AlIdle
    /\ BtIdle
    /\ FundIdle
    /\ ZIdle

\* run_backtest: bt_naive.run()
RunNaive ==
    /\ simPc = "naive"
    /\ naiveOut' = [done |-> TRUE, df |-> NaiveDirectionalBacktestRun(simIn)]
    /\ simPc' = "fair"
    /\ UNCHANGED <<simIn, fvOut, cmpOut>>
    /\ UNCHANGED <<estVars, metVars, alVars, btVars, fundVars, zVars>>

\* run_backtest: bt_fair.run()
RunFairValue ==
    /\ simPc = "fair"
    /\ fvOut' = [done |-> TRUE,
                 df |-> FairValueBacktestRun(simIn, ENTRY_THRESHOLD, EXIT_THRESHOLD)]
    /\ simPc' = "compare"
    /\ UNCHANGED <<simIn, naiveOut, cmpOut>>
    /\ UNCHANGED <<estVars, metVars, alVars, btVars, fundVars, zVars>>

\* gen_backtest_comparison.run: run_fair_value_backtest(df_model, col)
RunCompare ==
    /\ simPc = "compare"
    /\ cmpOut' = [done |-> TRUE,
                  res |-> RunFairValueBacktest(simIn, HORIZON, ENTRY_THRESHOLD,
                                               EXIT_THRESHOLD)]
    /\ simPc' = "done"
    /\ UNCHANGED <<simIn, fvOut, naiveOut>>
    /\ UNCHANGED <<estVars, metVars, alVars, btVars, fundVars, zVars>>

SimNext == RunNaive \/ RunFairValue \/ RunCompare

SpecSim == SimInit /\ [][SimNext]_vars

-----------------------------------------------------------------------------
(* backtest_m6.py: the volatility-scaled swing-trade strategy *)

TARGET_VOL_DAILY == 94

VOL_FLOOR == 100

M6_COST_BPS == 10

PROB_THRESHOLD == 5000

MEAN_REV_THRESHOLD == -200

\* df['vol_20d'].replace(0, 0.01)
ForecastVol(vol_20d) ==
    IF ~vol_20d.nan /\ vol_20d.v = 0 THEN Num(VOL_FLOOR) ELSE vol_20d

\* the exposure without the cap at 1.0
VolExposureUnclipped(forecast_vol) ==
    IF forecast_vol.nan THEN NaN
    ELSE Num(FxDiv(TARGET_VOL_DAILY, forecast_vol.v))

\* (target_vol_daily / forecast_vol).clip(upper=1.0)
VolExposure(forecast_vol) ==
    IF forecast_vol.nan THEN NaN
    ELSE Num(Min(FxDiv(TARGET_VOL_DAILY, forecast_vol.v), One))

\* np.where(is_calm, signal_trend, signal_mean_rev)
BaseSignal(row) ==
    IF row.prob_regime_0 > PROB_THRESHOLD
    THEN IF row.pred_prob > PROB_THRESHOLD THEN 1 ELSE 0
    ELSE IF row.ret_lag1 < MEAN_REV_THRESHOLD THEN 1 ELSE 0

\* base_signal * vol_exposure
PositionOf(row) ==
    LET vol_exposure == VolExposure(ForecastVol(row.vol_20d))
    IN  IF vol_exposure.nan THEN NaN ELSE Num(BaseSignal(row) * vol_exposure.v)

\* load_data: df_pred.join(df_mkt, how='left').dropna()
LoadData(table) == SelectSeq(table, LAMBDA row : ~row.vol_20d.nan)

\* strategy_gross of apply_strategy: the position of the same row
M6Gross(position, df) ==
    [i \in 1..Len(df) |->
        FxMul(position[i], df[i].ret_petr4) + FxMul(One - position[i], df[i].cdi_daily)]

\* apply_strategy on a table without missing values
ApplyStrategy(df, cost_bps) ==
    LET position == [i \in 1..Len(df) |-> PositionOf(df[i]).v]
        trades == DiffAbsFill0(position)
        cost == [i \in 1..Len(df) |-> FxMul(trades[i], cost_bps)]
        strategy_gross == M6Gross(position, df)
    IN  [position |-> position, trades |-> trades, cost |-> cost,
         strategy_gross |-> strategy_gross,
         strategy_net |-> [i \in 1..Len(df) |-> strategy_gross[i] - cost[i]]]

\* Win Rate (Long) of calculate_metrics: [wins, active days], 0.0 as [0, 0]
WinRateLong(position, df) ==
    LET active_days == {i \in 1..Len(df) : position[i] = One}
    IN  IF active_days # {}
        THEN [wins |-> Cardinality({i \in active_days : df[i].ret_petr4 > 0}),
              days |-> Cardinality(active_days)]
        ELSE [wins |-> 0, days |-> 0]

\* calculate_metrics: cum_strategy, Win Rate (Long), Total Trades (in halves)
M6CalculateMetrics(df, res) ==
    [cum_strategy |-> CumProd(res.strategy_net),
     win_rate |-> WinRateLong(res.position, df),
     trades_x2 |-> SumSeq(DiffAbsFill0(res.position))]

\* calculate_metrics(df): the table it was passed after the call, with the
\* columns cum_strategy, cum_bnh and cum_cdi it assigns before anything else
M6MetricsFrame(df, res) ==
    [position |-> res.position, trades |-> res.trades, cost |-> res.cost,
     strategy_gross |-> res.strategy_gross, strategy_net |-> res.strategy_net,
     cum_strategy |-> CumProd(res.strategy_net),
     cum_bnh |-> CumProd([i \in 1..Len(df) |-> df[i].ret_petr4]),
     cum_cdi |-> CumProd([i \in 1..Len(df) |-> df[i].cdi_daily])]

SignalCases ==
    {[prob_regime_0 |-> 6000, pred_prob |-> 6000, ret_lag1 |-> 0],
     [prob_regime_0 |-> 6000, pred_prob |-> 5000, ret_lag1 |-> -300],
     [prob_regime_0 |-> 5000, pred_prob |-> 6000, ret_lag1 |-> -200],
     [prob_regime_0 |-> 4000, pred_prob |-> 0, ret_lag1 |-> -300]}

VolValues == {NaN, Num(0), Num(50), Num(200)}

BtInit ==
    /\ \E n \in 1..MaxBtDays :
       \E sig \in [1..n -> SignalCases], vol \in [1..n -> VolValues],
          r \in RetValues, c \in CdiValues :
          btIn = [i \in 1..n |->
                     [date |-> i, vol_20d |-> vol[i],
                      prob_regime_0 |-> sig[i].prob_regime_0,
                      pred_prob |-> sig[i].pred_prob, ret_lag1 |-> sig[i].ret_lag1,
                      ret_petr4 |-> RetPath(n, r)[i], cdi_daily |-> c]]
    /\ btPc = "load"
    /\ btOut = [stage |-> "none"]
    /\ SimIdle
    /\ EstIdle
    /\ MetIdle
    /\ AlIdle
    /\ FundIdle
    /\ ZIdle

\* run_backtest: df = load_data()
BtLoadData ==
    /\ btPc = "load"
    /\ btOut' = [stage |-> "loaded", df |-> LoadData(btIn)]
    /\ btPc' = "apply"
    /\ UNCHANGED <<btIn, simVars, estVars, metVars, alVars, fundVars, zVars>>

\* run_backtest: df_res = apply_strategy(df, cost_bps=10)
BtApplyStrategy ==
    /\ btPc = "apply"
    /\ btOut' = [stage |-> "applied", df |-> btOut.df,
                 res |-> ApplyStrategy(btOut.df, M6_COST_BPS)]
    /\ btPc' = "metrics"
    /\ UNCHANGED <<btIn, simVars, estVars, metVars, alVars, fundVars, zVars>>

\* run_backtest: metrics = calculate_metrics(df_res); cum_strategy.iloc[-1]
\* raises IndexError on an empty table
BtCalculateMetrics ==
    /\ btPc = "metrics"
    /\ btOut' = IF Len(btOut.df) = 0
                THEN [stage |-> "raised", df |-> btOut.df,
                      res |-> M6MetricsFrame(btOut.df, btOut.res)]
                ELSE [stage |-> "metrics", df |-> btOut.df,
                      res |-> M6MetricsFrame(btOut.df, btOut.res),
                      metrics |-> M6CalculateMetrics(btOut.df, btOut.res)]
    /\ btPc' = "done"
    /\ UNCHANGED <<btIn, simVars, estVars, metVars, alVars, fundVars, zVars>>

BtNext == BtLoadData \/ BtApplyStrategy \/ BtCalculateMetrics

SpecBt == BtInit /\ [][BtNext]_vars

\* the two backtest programs, either of which may be the one that runs
SpecBacktests == (SimInit \/ BtInit) /\ [][SimNext \/ BtNext]_vars

-----------------------------------------------------------------------------
(* calc_metrics.py: the derived metrics of each quarter.  Quarters and      *)
(* observation dates are numbered in date order, quarter q ending on date   *)
(* q; beta is the trailing-window statistic already attached to each row    *)
(* of the returns table.                                                    *)

TRADING_DAYS == 252

STATUTORY_TAX_RATE == 3400

TAX_RATE_MAX == 5000

TAX_RATE_MIN == 1000

\* the k-th smallest value of a non-empty column
KthSmallest(s, k) ==
    CHOOSE v \in {s[i] : i \in DOMAIN s} :
        /\ Cardinality({i \in DOMAIN s : s[i] < v}) < k
        /\ k <= Cardinality({i \in DOMAIN s : s[i] <= v})

\* Series.median()
Median(s) ==
    LET n == Len(s)
    IN  IF n % 2 = 1 THEN KthSmallest(s, (n + 1) \div 2)
        ELSE (KthSmallest(s, n \div 2) + KthSmallest(s, n \div 2 + 1)) \div 2

\* mrp = df_ret['excess_ret_ibov'].mean() * 252, over the whole returns file
MarketRiskPremium(df_ret) ==
    (SumSeq([i \in 1..Len(df_ret) |-> df_ret[i].excess_ret_ibov]) \div Len(df_ret))
        * TRADING_DAYS

HasPreTaxIncome(row) == row.pre_tax_income # 0

\* tax_rate: |median of tax_provision / pre_tax_income| over every quarter of
\* the fundamentals file with a non-zero pre_tax_income, 0.34 outside [0.1, 0.5]
TaxRate(df_fund) ==
    LET valid_tax == SelectSeq(df_fund, HasPreTaxIncome)
        effective_tax_rate ==
            [i \in 1..Len(valid_tax) |->
                FxDiv(valid_tax[i].tax_provision, valid_tax[i].pre_tax_income)]
    IN  IF valid_tax = <<>> THEN STATUTORY_TAX_RATE
        ELSE LET tax_rate == Abs(Median(effective_tax_rate))
             IN  IF tax_rate > TAX_RATE_MAX \/ tax_rate < TAX_RATE_MIN
                 THEN STATUTORY_TAX_RATE
                 ELSE tax_rate

\* pd.merge_asof(df_fund, right, left_on='quarter_end', right_on='date',
\* direction='backward'): the last row of right dated on or before quarter_end
AsofRow(quarter_end, right) ==
    right[CHOOSE j \in DOMAIN right :
             /\ right[j].date <= quarter_end
             /\ \A k \in DOMAIN right : right[k].date <= quarter_end => k <= j]

\* roic = ebitda * (1 - tax_rate) / (total_debt + equity)
Roic(row, tax_rate) ==
    FxDiv(FxMul(row.ebitda, One - tax_rate), row.total_debt + row.equity)

\* if df_merged['cdi_annual'].mean() > 1: cdi_annual = cdi_annual / 100
CdiAsDecimal(cdi_annual) ==
    IF SumSeq(cdi_annual) \div Len(cdi_annual) > One
    THEN [q \in DOMAIN cdi_annual |-> cdi_annual[q] \div 100]
    ELSE cdi_annual

\* calculate_metrics: mrp, tax_rate and the rows of df_merged
CalculateMetrics(in) ==
    LET mrp == MarketRiskPremium(in.df_ret)
        tax_rate == TaxRate(in.df_fund)
        n == Len(in.df_fund)
        beta == [q \in 1..n |-> AsofRow(in.df_fund[q].quarter_end, in.df_ret).beta]
        cdi_annual ==
            CdiAsDecimal([q \in 1..n |->
                AsofRow(in.df_fund[q].quarter_end, in.df_cdi).cdi_annual])
        roic == [q \in 1..n |-> Roic(in.df_fund[q], tax_rate)]
        ke == [q \in 1..n |-> cdi_annual[q] + FxMul(beta[q], mrp)]
    IN  [done |-> TRUE, mrp |-> mrp, tax_rate |-> tax_rate,
         df_merged |-> [q \in 1..n |->
             [quarter_end |-> in.df_fund[q].quarter_end, beta |-> beta[q],
              cdi_annual |-> cdi_annual[q], roic |-> roic[q], ke |-> ke[q],
              evs |-> roic[q] - ke[q]]]]

TaxCases ==
    {[tax_provision |-> 200, pre_tax_income |-> 1000],
     [tax_provision |-> -400, pre_tax_income |-> 1000],
     [tax_provision |-> 100, pre_tax_income |-> 0]}

ExcessValues == {-4, 8}

BetaValues == {5000, 15000}

CdiAnnualValues == {1000, 100000}

\* the three files read by calculate_metrics, for n quarters
FundTables(n) ==
    {[df_fund |-> [q \in 1..n |->
                     [quarter_end |-> q, tax_provision |-> tax[q].tax_provision,
                      pre_tax_income |-> tax[q].pre_tax_income,
                      ebitda |-> 3000, total_debt |-> 6000, equity |-> 4000]],
      df_ret |-> [d \in 1..n |->
                     [date |-> d, excess_ret_ibov |-> ex[d], beta |-> b[d]]],
      df_cdi |-> [d \in 1..n |-> [date |-> d, cdi_annual |-> c[d]]]] :
        tax \in [1..n -> TaxCases], ex \in [1..n -> ExcessValues],
        b \in [1..n -> BetaValues], c \in [1..n -> CdiAnnualValues]}

FundInputs == UNION {FundTables(n) : n \in 1..MaxFundQuarters}

FundInit ==
    /\ fundIn \in FundInputs
    /\ fundPc = "metrics"
    /\ fundOut = NoOut
    /\ SimIdle
    /\ EstIdle
    /\ MetIdle
    /\ AlIdle
    /\ BtIdle
    /\ ZIdle

\* calculate_metrics()
FundCalculateMetrics ==
    /\ fundPc = "metrics"
    /\ fundOut' = CalculateMetrics(fundIn)
    /\ fundPc' = "done"
    /\ UNCHANGED <<fundIn, simVars, estVars, metVars, alVars, btVars, zVars>>

FundNext == FundCalculateMetrics

SpecFund == FundInit /\ [][FundNext]_vars

-----------------------------------------------------------------------------
(* calc_zscore.py: the expanding-window z-score of one metric column.  The  *)
(* column is indexed by quarter in quarter_end order; a z-score is a record *)
(* [kind, v] with kind "finite", "nan", "inf" or "neginf".                  *)

MIN_PERIODS == 2

ZNaN == [kind |-> "nan", v |-> 0]

\* floor of the square root
ISqrt(x) == CHOOSE r \in 0..x : r * r <= x /\ (r + 1) * (r + 1) > x

RECURSIVE SumOver(_, _)
SumOver(series, rows) ==
    IF rows = {} THEN 0
    ELSE LET k == CHOOSE k \in rows : TRUE
         IN  series[k].v + SumOver(series, rows \ {k})

\* the rows up to i that hold a value: expanding() skips missing values
Observed(series, i) == {k \in 1..i : ~series[k].nan}

MeanOver(series, rows) == SumOver(series, rows) \div Cardinality(rows)

\* sample standard deviation (ddof = 1)
StdOver(series, rows) ==
    LET m == MeanOver(series, rows)
        sq == [k \in DOMAIN series |-> Num((series[k].v - m) * (series[k].v - m))]
    IN  ISqrt(SumOver(sq, rows) \div (Cardinality(rows) - 1))

\* series.expanding(min_periods=2).mean()
ExpandingMean(series, min_periods) ==
    [i \in DOMAIN series |->
        IF Cardinality(Observed(series, i)) >= min_periods
        THEN Num(MeanOver(series, Observed(series, i))) ELSE NaN]

\* series.expanding(min_periods=2).std()
ExpandingStd(series, min_periods) ==
    [i \in DOMAIN series |->
        IF Cardinality(Observed(series, i)) >= min_periods
        THEN Num(StdOver(series, Observed(series, i))) ELSE NaN]

\* Series.shift(1)
Shift1(col) == [i \in DOMAIN col |-> IF i = 1 THEN NaN ELSE col[i - 1]]

\* (x - mean) / std in floating point: a zero divisor gives an infinity, or
\* nan for 0 / 0, and a missing operand gives nan
ZDiv(x, mean, std) ==
    IF x.nan \/ mean.nan \/ std.nan THEN ZNaN
    ELSE IF std.v = 0
         THEN IF x.v = mean.v THEN ZNaN
              ELSE IF x.v > mean.v THEN [kind |-> "inf", v |-> 0]
              ELSE [kind |-> "neginf", v |-> 0]
    ELSE [kind |-> "finite", v |-> FxDiv(x.v - mean.v, std.v)]

\* -z_score
Negate(z) ==
    IF z.kind = "inf" THEN [kind |-> "neginf", v |-> 0]
    ELSE IF z.kind = "neginf" THEN [kind |-> "inf", v |-> 0]
    ELSE [kind |-> z.kind, v |-> -z.v]

\* hist_mean = expanding_mean.shift(1), hist_std = expanding_std.shift(1)
Hist(col) == Shift1(col)

\* the body of calculate_zscores' loop for one metric
CalculateZScores(in) ==
    LET series == in.series
        hist_mean == Hist(ExpandingMean(series, MIN_PERIODS))
        hist_std == Hist(ExpandingStd(series, MIN_PERIODS))
        z_score == [t \in DOMAIN series |-> ZDiv(series[t], hist_mean[t], hist_std[t])]
    IN  IF in.higher_is_better THEN z_score
        ELSE [t \in DOMAIN series |-> Negate(z_score[t])]

MetricValues == {NaN, Num(0), Num(200), Num(400)}

\* one metric column of metrics.parquet and its entry of metrics_config
ZInputs(n) ==
    {[series |-> col, higher_is_better |-> hib] :
        col \in [1..n -> MetricValues], hib \in BOOLEAN}

ZInit ==
    /\ \E n \in 1..MaxZQuarters : zIn \in ZInputs(n)
    /\ zPc = "zscores"
    /\ zOut = NoOut
    /\ SimIdle
    /\ EstIdle
    /\ MetIdle
    /\ AlIdle
    /\ BtIdle
    /\ FundIdle

\* calculate_zscores()
ZCalculateZScores ==
    /\ zPc = "zscores"
    /\ zOut' = [done |-> TRUE, z |-> CalculateZScores(zIn)]
    /\ zPc' = "done"
    /\ UNCHANGED <<zIn, simVars, estVars, metVars, alVars, btVars, fundVars>>

ZNext == ZCalculateZScores

SpecZ == ZInit /\ [][ZNext]_vars

-----------------------------------------------------------------------------
(* Strategy simulator: claims *)

\* position held over the date before i; Flat before the first date
PrevPos(position, i) == IF i = 1 THEN 0 ELSE position[i - 1]

\* the transition rule of the specification applied to one date
HysteresisRule(prev, signal, entry, exit) ==
    IF prev = 0 /\ Gt(signal, Num(entry)) THEN 1
    ELSE IF prev = 1 /\ Lt(signal, Num(exit)) THEN 0
    ELSE prev

FollowsHysteresis(upside, position) ==
    \A i \in 1..Len(position) :
        position[i] = HysteresisRule(PrevPos(position, i), upside[i],
                                     ENTRY_THRESHOLD, EXIT_THRESHOLD)

\* C3: at every date the state moves Flat -> Long only when signal >
\* entry_threshold, Long -> Flat only when signal < exit_threshold, and otherwise
\* (a signal equal to a threshold included) keeps the previous state, in
\* FairValueBacktest.run and in run_fair_value_backtest alike.
C3_Hysteresis ==
    /\ fvOut.done => FollowsHysteresis(fvOut.df.upside, fvOut.df.position)
    /\ cmpOut.done => FollowsHysteresis(cmpOut.res.upside, cmpOut.res.positions)

\* both simulators ran on signals that sit exactly on the entry threshold while
\* Flat and exactly on the exit threshold while Long
C3_Witness ==
    /\ fvOut.done /\ cmpOut.done
    /\ \E i, j \in 1..Len(cmpOut.res.positions) :
        /\ PrevPos(cmpOut.res.positions, i) = 0
        /\ cmpOut.res.upside[i] = Num(ENTRY_THRESHOLD)
        /\ fvOut.df.position[i] = 0
        /\ PrevPos(fvOut.df.position, j) = 1
        /\ fvOut.df.upside[j] = Num(EXIT_THRESHOLD)
        /\ cmpOut.res.positions[j] = 1

LaggedGross(position, gross, ret_petr4, cdi_daily) ==
    \A i \in 1..Len(gross) :
        gross[i] = PrevPos(position, i) * ret_petr4[i]
                   + (1 - PrevPos(position, i)) * cdi_daily[i]

\* C4: the position decided on date t is realized at t+1: gross_return[i] =
\* position[i-1]*asset_return[i] + (1 - position[i-1])*risk_free[i] for i >= 1,
\* and the first date earns the risk-free rate.
C4_ExecutionLag ==
    /\ fvOut.done =>
         LaggedGross(fvOut.df.position, fvOut.df.strategy_gross,
                     simIn.ret_petr4, simIn.cdi_daily)
    /\ naiveOut.done =>
         LaggedGross(naiveOut.df.position, naiveOut.df.strategy_gross,
                     simIn.ret_petr4, simIn.cdi_daily)
    /\ cmpOut.done =>
         LaggedGross(cmpOut.res.positions, cmpOut.res.strat_ret,
                     simIn.ret_petr4, simIn.cdi_daily)

\* a run that enters on the first date and leaves on a later one, with a
\* risk-free rate that is not zero
C4_Witness ==
    /\ fvOut.done /\ cmpOut.done
    /\ simIn.cdi_daily[1] # 0
    /\ fvOut.df.position[1] = 1
    /\ fvOut.df.strategy_gross[1] = simIn.cdi_daily[1]
    /\ \E i \in 2..Len(simIn.pred) :
        /\ fvOut.df.position[i - 1] = 1
        /\ fvOut.df.position[i] = 0
        /\ fvOut.df.strategy_gross[i] = simIn.ret_petr4[i]

\* cost due on date i: the change decided on date i-1, executed on date i
LaggedCost(position, i, cost_rate) ==
    IF i = 1 THEN 0
    ELSE cost_rate * Abs(position[i - 1] - PrevPos(position, i - 1))

ChargedOnExecution(position, gross, net, cost_rate) ==
    \A i \in 1..Len(net) : net[i] = gross[i] - LaggedCost(position, i, cost_rate)

\* C5: every position change decided on date t costs cost_rate * |position[t] -
\* position[t-1]| on date t+1, the date it first affects the realized return,
\* and on no other date; without such a change net return = gross return.
C5_CostTiming ==
    /\ cmpOut.done =>
         ChargedOnExecution(cmpOut.res.positions, cmpOut.res.strat_ret,
                            cmpOut.res.strat_ret_net, CMP_COST_BPS)
    /\ fvOut.done =>
         ChargedOnExecution(fvOut.df.position, fvOut.df.strategy_gross,
                            fvOut.df.strategy_net, COST_BPS)
    /\ naiveOut.done =>
         ChargedOnExecution(naiveOut.df.position, naiveOut.df.strategy_gross,
                            naiveOut.df.strategy_net, COST_BPS)

\* the scenario of the specification: signals 0.03, 0.01, -0.01, 0.03 with a
\* zero risk-free rate, thresholds 0.02 and 0.00
ScenarioSignals == <<Num(300), Num(100), Num(-100), Num(300)>>

InScenario ==
    /\ simIn.pred = ScenarioSignals
    /\ \A i \in 1..Len(simIn.cdi_daily) : simIn.cdi_daily[i] = 0

TotalCost(gross, net) == SumSeq([i \in 1..Len(net) |-> gross[i] - net[i]])

\* C6: in the scenario the positions are Long, Long, Flat, Long after the
\* initial Flat, exactly 3 transitions are counted, and net return = gross
\* return - 3 x cost rate, each cost on the execution date of its transition.
C6_Scenario ==
    (InScenario /\ fvOut.done /\ cmpOut.done) =>
        /\ fvOut.df.position = <<1, 1, 0, 1>>
        /\ cmpOut.res.positions = <<1, 1, 0, 1>>
        /\ cmpOut.res.trades_sum = 3
        /\ SumSeq(fvOut.df.pos_change) = 3
        /\ TotalCost(cmpOut.res.strat_ret, cmpOut.res.strat_ret_net) = 3 * CMP_COST_BPS
        /\ TotalCost(fvOut.df.strategy_gross, fvOut.df.strategy_net) = 3 * COST_BPS

-----------------------------------------------------------------------------
(* backtest_m6 and equity curves: claims *)

BtApplied == btOut.stage \in {"applied", "metrics", "raised"}

\* min(1, target_daily_vol / trailing_vol), the trailing volatility being the
\* 0.01 floor where vol_20d is zero
TargetExposure(vol_20d) ==
    LET trailing_vol == IF vol_20d = 0 THEN VOL_FLOOR ELSE vol_20d
    IN  IF TARGET_VOL_DAILY >= trailing_vol THEN One
        ELSE (TARGET_VOL_DAILY * One) \div trailing_vol

\* C14: on every date the sized position equals
\* binary_signal * min(1, target_daily_vol / trailing_vol), so the position is
\* always within [0, 1] and never exceeds 1 (no leverage).
C14_VolTargeting ==
    BtApplied =>
        \A i \in 1..Len(btOut.df) :
            /\ btOut.res.position[i] =
                  BaseSignal(btOut.df[i]) * TargetExposure(btOut.df[i].vol_20d.v)
            /\ 0 <= btOut.res.position[i]
            /\ btOut.res.position[i] <= One

C14_Witness ==
    /\ btOut.stage = "applied"
    /\ \E i \in 1..Len(btOut.df) :
          /\ btOut.df[i].vol_20d.v = 50
          /\ btOut.res.position[i] = One
    /\ \E i \in 1..Len(btOut.df) :
          /\ btOut.res.position[i] > 0
          /\ btOut.res.position[i] < One

\* the row of the loaded table that carries input date i, 0 if there is none
RowOfDate(i) ==
    IF \E k \in 1..Len(btOut.df) : btOut.df[k].date = i
    THEN CHOOSE k \in 1..Len(btOut.df) : btOut.df[k].date = i
    ELSE 0

\* C15: if the trailing volatility of a date is zero or missing, the sizing
\* layer substitutes the minimum floor, and the resulting exposure and
\* position for that date are finite and non-missing.
C15_DegenerateVol ==
    BtApplied =>
        \A i \in 1..Len(btIn) :
            (btIn[i].vol_20d.nan \/ btIn[i].vol_20d.v = 0) =>
                /\ RowOfDate(i) # 0
                /\ btOut.res.position[RowOfDate(i)] =
                      BaseSignal(btIn[i]) * TargetExposure(VOL_FLOOR)

\* C16: in the volatility-scaled strategy the fractional position decided
\* from the signal of date t is realized only at t+1:
\* gross_return[t+1] = position[t]*asset_return[t+1] + (1 - position[t])*risk_free[t+1].
C16_SizedExecutionLag ==
    BtApplied =>
        \A k \in 2..Len(btOut.df) :
            btOut.res.strategy_gross[k] =
                FxMul(btOut.res.position[k - 1], btOut.df[k].ret_petr4)
                + FxMul(One - btOut.res.position[k - 1], btOut.df[k].cdi_daily)

\* equity[1] = 1 + r1 and equity[i] = equity[i-1] * (1 + ri)
Compounds(equity, r) ==
    /\ Len(equity) = Len(r)
    /\ \A i \in 1..Len(r) :
          equity[i] = IF i = 1 THEN One + r[1] ELSE FxMul(equity[i - 1], One + r[i])

\* C17: for any net-return sequence [r1..rn] the equity series satisfies
\* equity[1] = 1 + r1 and equity[i] = equity[i-1] * (1 + ri), so the final
\* equity is the product of (1 + ri) over all dates.
C17_EquityCompounding ==
    /\ fvOut # NoOut => Compounds(fvOut.df.equity, fvOut.df.strategy_net)
    /\ naiveOut # NoOut => Compounds(naiveOut.df.equity, naiveOut.df.strategy_net)
    /\ btOut.stage = "metrics" =>
          /\ Compounds(btOut.metrics.cum_strategy, btOut.res.strategy_net)
          /\ btOut.metrics.cum_strategy[Len(btOut.df)]
                = Prod([i \in 1..Len(btOut.df) |-> One + btOut.res.strategy_net[i]])

C17_Witness ==
    /\ fvOut # NoOut
    /\ Len(fvOut.df.equity) >= 3
    /\ fvOut.df.equity[1] # One
    /\ fvOut.df.equity[3] # fvOut.df.equity[2]
    /\ fvOut.df.equity[3] # One + SumSeq(SubSeq(fvOut.df.strategy_net, 1, 3))

-----------------------------------------------------------------------------
(* Rolling estimators: claims *)

\* the rows whose Observation or Fundamental Record a forecast is computed from
ReadRows(f) ==
    IF f.kind # "model" THEN {}
    ELSE (f.fit.lo)..(f.fit.hi) \cup (IF f.exog = 0 THEN {} ELSE {f.exog})

NoLookahead(forecasts) ==
    \A t \in DOMAIN forecasts : \A r \in ReadRows(forecasts[t]) : r < t

\* C1: for every date t the forecast for t (the M2 dynamic-CAPM prediction and
\* the M6 pred_prob) is unchanged under mutation of any row dated >= t: it is
\* computed from rows dated before t only.
C1_NoLookahead ==
    /\ nestedOut.stage = "scored" => NoLookahead(nestedOut.pred_m2)
    /\ dynOut.done => NoLookahead(dynOut.pred_dynamic_capm)
    /\ m6Out.done => NoLookahead(m6Out.pred_prob)

FitBefore(params) ==
    \A t \in DOMAIN params :
        ~params[t].nan => (params[t].lo >= 1 /\ params[t].hi < t)

\* C2: wherever the rolling estimator supplies parameters for use at date t
\* (RollingOLS parameters after shift(1), the AR-GARCH window of
\* fit_predict_rolling), they were fit on rows dated before t only.
C2_LagDiscipline ==
    /\ nestedOut.stage \in {"shift", "scored"} => FitBefore(nestedOut.lagged_params)
    /\ dynOut.done => FitBefore(dynOut.pred_params)
    /\ macroOut.done =>
         FitBefore([t \in DOMAIN macroOut.forecast |-> macroOut.forecast[t].fit])

\* all three estimators have supplied parameters for some date
C2_Witness ==
    /\ nestedOut.stage = "scored" /\ dynOut.done /\ macroOut.done
    /\ \E t \in DOMAIN nestedOut.lagged_params :
        /\ ~nestedOut.lagged_params[t].nan
        /\ ~dynOut.pred_params[t].nan
        /\ t \in DOMAIN macroOut.forecast

\* C8: on a test date whose lagged rolling parameters are missing no M2
\* forecast is emitted and the date is left out of the M2 metrics; no default
\* value stands in for the forecast.
C8_MissingWithheld ==
    nestedOut.stage = "scored" =>
        \A t \in TestIndex(estIn) :
            nestedOut.lagged_params[t].nan =>
                /\ nestedOut.pred_m2[t].kind = "nan"
                /\ t \notin nestedOut.m2_sample

\* parameters exist at no row before the window-th and at the window-th row
FirstAt(present, n, window) ==
    /\ \A i \in 1..n : i < window => i \notin present
    /\ n >= window => window \in present

\* C9: with W = 252 no parameters are emitted for a date with fewer than 252
\* available rows, and the 252nd date is the first with a parameter, MIN_OBS =
\* 126 notwithstanding.
C9_WindowBoundary ==
    /\ nestedOut.stage # "none" =>
         FirstAt({i \in 1..estIn.n : ~nestedOut.rolling_params[i].nan},
                 estIn.n, ROLLING_WINDOW)
    /\ rollR2Out.done =>
         FirstAt(DOMAIN rollR2Out.results, estIn.n, R2_WINDOW_SIZE)

\* the rows a fitted model is determined by: its estimation and early-stopping
\* rows, and the later rows their targets are computed from
DeterminedBy(f) ==
    {u \in 1..estIn.n : \E t \in f.x_rows \cup f.stop_rows : t <= u /\ u <= t + f.fwd}

TrainOnly(f) == f.fitted => DeterminedBy(f) \subseteq 1..estIn.ntrain

\* C13: for each model specification the fit used to predict the test rows is
\* determined by the training rows (date < boundary) alone: no row dated on or
\* after the train/test boundary is among the rows the fitted model depends on.
C13_TrainOnlyFitting ==
    /\ estPc \in {"gen_m6", "horizon", "done"} => TrainOnly(fitOut.m3)
    /\ estPc \in {"horizon", "done"} => TrainOnly(fitOut.m6)
    /\ estPc = "done" => TrainOnly(fitOut.huber_h) /\ TrainOnly(fitOut.xgb_h)

-----------------------------------------------------------------------------
(* R2_OOS: claims *)

BenchmarkMseZero ==
    SumSqErr(metIn.y_true, Constant(metIn.y_true, metIn.y_train_mean)) = 0

DynBenchmarkMseZero ==
    SumSqErr(metIn.y_true, ExpandingMeanShift1(metIn.y_train, metIn.y_true)) = 0

MetAfter(pcs) == metPc \in pcs

\* C10: whenever the benchmark MSE over the test rows is exactly zero, every
\* R2_OOS computation reports the metric as undefined (a missing marker); none
\* raises a numeric exception and none emits an infinite value.
C10_DegenerateMetric ==
    /\ BenchmarkMseZero =>
        /\ MetAfter({"dynamic", "legacy", "naive", "done"}) => metOut.nested.kind = "nan"
        /\ MetAfter({"done"}) => metOut.legacy.kind = "nan"
    /\ DynBenchmarkMseZero =>
        /\ MetAfter({"legacy", "naive", "done"}) => metOut.dynamic.kind = "nan"
        /\ MetAfter({"done"}) => metOut.naive_rw.kind = "nan"

\* a float result is exactly 0.0
IsZero(x) == x.kind = "finite" /\ x.num = 0

\* two float results are the same value
FloatEq(a, b) ==
    /\ a.kind = b.kind
    /\ a.kind = "finite" => a.num * b.den = b.num * a.den

\* C11 (as stated): the R2_OOS reported for the historical-mean benchmark
\* (M0_HM of run_estimation, HM of run_naive_benchmarks) is exactly 0 on any
\* test sample.
C11_SelfComparisonAnySample ==
    /\ MetAfter({"dynamic", "legacy", "naive", "done"}) => IsZero(metOut.m0_hm)
    /\ MetAfter({"done"}) => IsZero(metOut.naive_hm)

\* C11: the R2_OOS reported for the historical-mean benchmark is exactly 0
\* whenever the benchmark MSE over the test sample is not zero; when it is
\* zero, run_estimation reports M0_HM as nan (undefined) and
\* run_naive_benchmarks still reports the literal 0 for HM.
C11_SelfComparison ==
    /\ MetAfter({"dynamic", "legacy", "naive", "done"}) =>
          IF BenchmarkMseZero THEN metOut.m0_hm.kind = "nan"
          ELSE IsZero(metOut.m0_hm)
    /\ MetAfter({"done"}) => IsZero(metOut.naive_hm)

C11_Witness ==
    /\ metPc = "done"
    /\ ~BenchmarkMseZero
    /\ metIn.y_train_mean # 0
    /\ IsZero(metOut.m0_hm)
    /\ IsZero(metOut.naive_hm)

\* 1 - MSE_model / MSE_benchmark with the constant benchmark Mean(fit_train)
R2AgainstTrainMean(y_true, y_pred, fit_train) ==
    LET sse_benchmark == SumSqErr(y_true, Constant(y_true, Mean(fit_train)))
    IN  Finite(sse_benchmark - SumSqErr(y_true, y_pred), sse_benchmark)

\* the benchmark MSE of a model fit on fit_train is not zero
BenchmarkDefined(fit_train) ==
    SumSqErr(metIn.y_true, Constant(metIn.y_true, Mean(fit_train))) # 0

\* C12: for every model of the comparison, the reported R2_OOS is
\* 1 - MSE_model / MSE_benchmark, the benchmark being the constant predictor
\* equal to the mean of the target over the training sample the model was fit
\* on (train for M1 and the dynamic CAPM, train_reg for M3..M5), taken over the
\* model's test rows.
C12_BenchmarkDefinition ==
    /\ (MetAfter({"dynamic", "legacy", "naive", "done"}) /\ BenchmarkDefined(metIn.y_train)) =>
          FloatEq(metOut.nested,
                  R2AgainstTrainMean(metIn.y_true, metIn.y_pred, metIn.y_train))
    /\ (MetAfter({"dynamic", "legacy", "naive", "done"})
          /\ BenchmarkDefined(TrainReg(metIn.y_train, metIn.warm))) =>
          FloatEq(metOut.m3,
                  R2AgainstTrainMean(metIn.y_true, metIn.y_pred,
                                     TrainReg(metIn.y_train, metIn.warm)))
    /\ (MetAfter({"legacy", "naive", "done"}) /\ BenchmarkDefined(metIn.y_train)) =>
          FloatEq(metOut.dynamic,
                  R2AgainstTrainMean(metIn.y_true, metIn.y_pred, metIn.y_train))

-----------------------------------------------------------------------------
(* Temporal alignment: claims *)

AvailableDates(table) ==
    {AddMonths(table[i].quarter_end, DISCLOSURE_LAG_MONTHS) : i \in 1..Len(table)}

\* the joined field is the most recent record of table available on date
MostRecentAvailable(date, field, table) ==
    LET avail == {a \in AvailableDates(table) : a <= date}
    IN  IF avail = {} THEN field.missing
        ELSE /\ ~field.missing
             /\ field.available_date <= date
             /\ \A a \in avail : a <= field.available_date
             /\ \E i \in 1..Len(table) :
                   /\ AddMonths(table[i].quarter_end, DISCLOSURE_LAG_MONTHS)
                        = field.available_date
                   /\ table[i].val = field.val

\* C7: every aligned row dated d carries, for each secondary series, the most
\* recent record whose available_date <= d, and never a record that becomes
\* available after d.
C7_BackwardAsof ==
    /\ alOut.nested.done =>
         \A k \in {"df_full", "df_model"} :
            \A i \in 1..Len(alOut.nested[k]) :
               /\ MostRecentAvailable(alOut.nested[k][i].date,
                                      alOut.nested[k][i].qval, alIn.qval)
               /\ MostRecentAvailable(alOut.nested[k][i].date,
                                      alOut.nested[k][i].factors, alIn.factors)
    /\ alOut.prep.done =>
         \A k \in {"df_merged", "df_out"} :
            \A i \in 1..Len(alOut.prep[k]) :
               MostRecentAvailable(alOut.prep[k][i].date, alOut.prep[k][i].z,
                                   alIn.qval)

\* a row dated between two available dates: it carries the earlier record
\* although a later one exists
C7_Witness ==
    /\ alOut.nested.done /\ alOut.prep.done
    /\ \E i \in 1..Len(alOut.nested.df_model) :
        LET row == alOut.nested.df_model[i]
        IN  /\ \E a \in AvailableDates(alIn.qval) : a > row.date
            /\ row.qval.available_date < row.date
            /\ \E j \in 1..Len(alOut.prep.df_out) :
                  /\ alOut.prep.df_out[j].date = row.date
                  /\ alOut.prep.df_out[j].z = row.qval

\* the date is earlier than every available_date of the table
BeforeFirstRecord(date, table) == \A a \in AvailableDates(table) : date < a

\* C18: for every primary date earlier than the first available_date of a
\* secondary series, the joined fields of that series are explicitly missing:
\* the merged frames carry them as missing, never as zero or another default,
\* and the cleaned frames do not contain such a row.
C18_MissingBeforeFirstRecord ==
    /\ alOut.nested.done =>
         /\ \A i \in 1..Len(alOut.nested.df_full) :
               LET row == alOut.nested.df_full[i]
               IN  /\ BeforeFirstRecord(row.date, alIn.qval) => row.qval.missing
                   /\ BeforeFirstRecord(row.date, alIn.factors) => row.factors.missing
         /\ \A i \in 1..Len(alOut.nested.df_model) :
               LET row == alOut.nested.df_model[i]
               IN  /\ ~BeforeFirstRecord(row.date, alIn.qval)
                   /\ ~BeforeFirstRecord(row.date, alIn.factors)
    /\ alOut.prep.done =>
         \A k \in {"df_merged", "df_out"} :
            \A i \in 1..Len(alOut.prep[k]) :
               BeforeFirstRecord(alOut.prep[k][i].date, alIn.qval) =>
                  alOut.prep[k][i].z.missing
    /\ alOut.backtest.done =>
         /\ \A i \in 1..Len(alOut.backtest.merged) :
               LET row == alOut.backtest.merged[i]
               IN  /\ BeforeFirstRecord(row.date, alIn.qval) => row.qval.missing
                   /\ BeforeFirstRecord(row.date, alIn.factors) => row.factors.missing
         /\ \A i \in 1..Len(alOut.backtest.df) :
               LET row == alOut.backtest.df[i]
               IN  /\ ~BeforeFirstRecord(row.date, alIn.qval)
                   /\ ~BeforeFirstRecord(row.date, alIn.factors)

\* a date before the first Q-VAL record next to a later date that has one
C18_Witness ==
    /\ alOut.backtest.done
    /\ alIn.qval # <<>>
    /\ \E i \in 1..Len(alOut.nested.df_full) :
          /\ BeforeFirstRecord(alOut.nested.df_full[i].date, alIn.qval)
          /\ alOut.nested.df_full[i].qval.missing
          /\ alOut.backtest.merged[i].qval.missing
    /\ Len(alOut.nested.df_model) >= 1
    /\ Len(alOut.nested.df_model) < Len(alOut.nested.df_full)
    /\ Len(alOut.backtest.df) = Len(alOut.nested.df_model)

\* the value of the record with the latest period end among the records of
\* table that become available on available_date
LatestPeriodEndVal(available_date, table) ==
    LET tied == {i \in 1..Len(table) :
                    AddMonths(table[i].quarter_end, DISCLOSURE_LAG_MONTHS) = available_date}
        last == CHOOSE i \in tied :
                    \A j \in tied : table[j].quarter_end <= table[i].quarter_end
    IN  table[last].val

TieBrokenByPeriodEnd(field, table) ==
    ~field.missing => field.val = LatestPeriodEndVal(field.available_date, table)

\* C19: when two secondary records have the same available_date, every
\* primary row dated on or after that available_date (and before the next
\* one) receives the record with the latest period end.
C19_TieBreaking ==
    /\ alOut.nested.done =>
         \A i \in 1..Len(alOut.nested.df_full) :
            /\ TieBrokenByPeriodEnd(alOut.nested.df_full[i].qval, alIn.qval)
            /\ TieBrokenByPeriodEnd(alOut.nested.df_full[i].factors, alIn.factors)
    /\ alOut.prep.done =>
         \A i \in 1..Len(alOut.prep.df_merged) :
            TieBrokenByPeriodEnd(alOut.prep.df_merged[i].z, alIn.qval)

\* the dates of the rows of a frame
DatesOf(frame) == [i \in 1..Len(frame) |-> frame[i].date]

-----------------------------------------------------------------------------
(* Fit failures of the rolling macro forecast.                              *)

\* the forecast of the latest window before t whose fit converged
LastConverged(t) ==
    LET ok == {u \in DOMAIN macroOut.forecast : u < t /\ u \notin macroOut.raised}
    IN  IF ok = {} THEN NoForecast
        ELSE macroOut.forecast[CHOOSE u \in ok : \A v \in ok : v <= u]

\* C21: when the fitting primitive fails for a window, the rolling estimator
\* records the failure for that window and emits the forecast from the last
\* successfully converged parameters, never another value.
C21_FitNonConvergence ==
    macroOut.done =>
        \A t \in macroOut.raised :
            /\ t \in macroOut.reported
            /\ macroOut.forecast[t].kind # "window_mean"
            /\ macroOut.forecast[t].fit = LastConverged(t).fit

-----------------------------------------------------------------------------
(* Performance report of backtest_m6: claims *)

\* the dates of the Long state: any non-zero long exposure
LongDates(position) == {i \in 1..Len(position) : position[i] > 0}

\* wins / days as a fraction, the 0.0 of an empty selection as 0 / 1
AsFraction(wins, days) == IF days = 0 THEN <<0, 1>> ELSE <<wins, days>>

SameFraction(a, b) == a[1] * b[2] = b[1] * a[2]

\* C22: the reported win rate is the fraction of dates with a positive asset
\* return among all dates on which the strategy is in the Long state, a
\* volatility-scaled fractional exposure included.
C22_WinRate ==
    btOut.stage = "metrics" =>
        LET long == LongDates(btOut.res.position)
            wins == {i \in long : btOut.df[i].ret_petr4 > 0}
        IN  long # {} =>
              SameFraction(AsFraction(btOut.metrics.win_rate.wins,
                                      btOut.metrics.win_rate.days),
                           AsFraction(Cardinality(wins), Cardinality(long)))

\* C23: running the performance analyzer leaves the table passed to it
\* unchanged: no column or value of the caller's table is added or modified.
C23_ReadOnlyInputs ==
    [][btPc = "metrics" => btOut'.res = btOut.res]_vars

-----------------------------------------------------------------------------
(* The two fair-value simulators compared *)

\* the trades charged on each date: (gross - net) in units of the cost rate
ChargedTrades(gross, net, rate) ==
    [i \in 1..Len(net) |-> (gross[i] - net[i]) \div rate]

\* C24: for the same predictions, asset returns, risk-free rates, thresholds
\* and cost rate, FairValueBacktest.run and run_fair_value_backtest produce the
\* same net-return series (the same gross return and the same number of trades
\* charged on every date) and the same trade count, a first signal that
\* already triggers an entry included.
C24_SimulatorsAgree ==
    (fvOut.done /\ cmpOut.done) =>
        /\ fvOut.df.strategy_gross = cmpOut.res.strat_ret
        /\ ChargedTrades(fvOut.df.strategy_gross, fvOut.df.strategy_net, COST_BPS)
             = ChargedTrades(cmpOut.res.strat_ret, cmpOut.res.strat_ret_net,
                             CMP_COST_BPS)
        /\ PrintMetricsTrades(fvOut.df) = cmpOut.res.trades_sum

-----------------------------------------------------------------------------
(* Targets of the 21-day horizon models *)

\* the rows whose returns make up target_return_21d of row t
TargetWindow(t, f) == t..(t + f.fwd)

TargetsBeforeBoundary(f) ==
    \A t \in f.x_rows : t <= estIn.ntrain =>
        \A u \in TargetWindow(t, f) : u <= estIn.ntrain

\* C25: for every training row (date < train/test boundary) of the 21-day
\* horizon models, the target target_return_21d depends only on returns dated
\* before the boundary.
C25_TargetBoundary ==
    estPc = "done" =>
        /\ TargetsBeforeBoundary(fitOut.huber_h)
        /\ TargetsBeforeBoundary(fitOut.xgb_h)

-----------------------------------------------------------------------------
(* Point-in-time fundamentals *)

\* the inputs that differ from in only in return or fundamental observations
\* dated after quarter q
MutatedAfter(in, q) ==
    {alt \in FundTables(Len(in.df_fund)) :
        /\ alt.df_cdi = in.df_cdi
        /\ \A i \in 1..q : /\ alt.df_fund[i] = in.df_fund[i]
                           /\ alt.df_ret[i] = in.df_ret[i]}

\* C26: every metric value stored for quarter q (ke and evs, which use the
\* market risk premium and the tax rate, included) is unchanged under mutation
\* of any return or fundamental observation dated after q.
C26_PointInTime ==
    fundOut.done =>
        \A q \in 1..Len(fundIn.df_fund) :
            \A alt \in MutatedAfter(fundIn, q) :
                CalculateMetrics(alt).df_merged[q] = fundOut.df_merged[q]

-----------------------------------------------------------------------------
(* Cost accounting against the trade count *)

\* C27: after FairValueBacktest.run or NaiveDirectionalBacktest.run the sum
\* over all dates of strategy_gross - strategy_net equals COST_BPS times the
\* reported trade count (the sum of pos_change), a position change on the last
\* date included.
C27_CostMatchesTrades ==
    /\ fvOut.done =>
         TotalCost(fvOut.df.strategy_gross, fvOut.df.strategy_net)
             = COST_BPS * PrintMetricsTrades(fvOut.df)
    /\ naiveOut.done =>
         TotalCost(naiveOut.df.strategy_gross, naiveOut.df.strategy_net)
             = COST_BPS * PrintMetricsTrades(naiveOut.df)

-----------------------------------------------------------------------------
(* Evaluation samples of the nested comparison *)

\* C28: every model of the nested comparison table is scored on the same set
\* of test dates, so all reported metrics share the same test sample size n:
\* M0_RW, M0_HM and M1 (y_test), M2 (valid_idx), M3, M4 and M5 (test_reg),
\* M5_Linear and M5_ML (common_idx) when they are in the table.
C28_ConsistentSample ==
    (estPc \in {"gen_m6", "horizon", "done"} /\ fitOut.m3.fitted) =>
        /\ nestedOut.m2_sample = nestedOut.m0_sample
        /\ fitOut.m3_sample = nestedOut.m0_sample
        /\ fitOut.m5_sample # {} => fitOut.m5_sample = nestedOut.m0_sample

\* a table with every model in it, scored on more than one test date
C28_Witness ==
    /\ estPc = "done"
    /\ fitOut.m3.fitted
    /\ Cardinality(nestedOut.m0_sample) > 1
    /\ fitOut.m5_sample # {}

-----------------------------------------------------------------------------
(* Missing signals in the fair-value simulators *)

\* one state, Flat (0) or Long (1), per date, and the previous state kept on
\* every date whose signal is missing
HoldsOnMissing(upside, position) ==
    /\ Len(position) = Len(upside)
    /\ \A i \in 1..Len(position) :
          /\ position[i] \in {0, 1}
          /\ IsNaN(upside[i]) => position[i] = PrevPos(position, i)

\* C29: a date whose signal is missing (NaN) keeps the previous state in both
\* fair-value simulators, and the position recorded for every date is exactly
\* 0 (Flat) or 1 (Long), one state per date.
C29_MissingSignals ==
    /\ fvOut.done => HoldsOnMissing(fvOut.df.upside, fvOut.df.position)
    /\ cmpOut.done => HoldsOnMissing(cmpOut.res.upside, cmpOut.res.positions)

\* both simulators met a missing signal while Long and another while Flat
C29_Witness ==
    /\ fvOut.done
    /\ cmpOut.done
    /\ \E i, j \in 2..Len(fvOut.df.position) :
          /\ IsNaN(fvOut.df.upside[i]) /\ fvOut.df.position[i - 1] = 1
          /\ IsNaN(fvOut.df.upside[j]) /\ fvOut.df.position[j - 1] = 0
          /\ IsNaN(cmpOut.res.upside[i]) /\ cmpOut.res.positions[i - 1] = 1

-----------------------------------------------------------------------------
(* Historical z-scores *)

\* the columns that differ from in only in quarters after t
ZMutatedAfter(in, t) ==
    {alt \in ZInputs(Len(in.series)) :
        /\ alt.higher_is_better = in.higher_is_better
        /\ \A i \in 1..t : alt.series[i] = in.series[i]}

\* the column scored with the opposite direction
Opposite(in) == [in EXCEPT !.higher_is_better = ~in.higher_is_better]

\* C30: the z-score of a metric at quarter t is (value[t] - mean) / std with
\* mean and std over all quarters strictly before t, so it is missing for the
\* first two quarters, first defined at the third, and unchanged under
\* mutation of any later quarter's value; the sign is inverted for
\* lower-is-better metrics.
C30_HistoricalZScores ==
    zOut.done =>
        LET n == Len(zIn.series)
        IN  /\ \A t \in 1..n : t <= 2 => zOut.z[t].kind = "nan"
            /\ n >= 3 => zOut.z[3].kind = "finite"
            /\ \A t \in 1..n : \A alt \in ZMutatedAfter(zIn, t) :
                  CalculateZScores(alt)[t] = zOut.z[t]
            /\ \A t \in 1..n :
                  CalculateZScores(Opposite(zIn))[t] = Negate(zOut.z[t])

====
